---------------------------- MODULE Spec2Model ----------------------------
(***************************************************************************)
(* Model of internal/raft/inmemory.go: the in-memory log window `inMemory` *)
(* (pending snapshot, buffered entries, markerIndex, savedTo) and its      *)
(* operations newInMemory, merge, commitUpdate, savedLogTo, appliedLogTo,  *)
(* savedSnapshotTo, restore and the read accessors.                        *)
(*                                                                         *)
(* An entry is a record [Index, Term]; the payload plays no part in the    *)
(* bookkeeping.  The pointer im.snapshot is modelled as a sequence of      *)
(* length 0 (nil) or 1.  A plog.Panicf ends the program: the variable      *)
(* `fault` names the panic and every action is disabled afterwards.        *)
(***************************************************************************)
EXTENDS Integers, Sequences, FiniteSets, TLC

VARIABLES snapshot, entries, markerIndex, savedTo, fault, lastOp

vars == <<snapshot, entries, markerIndex, savedTo, fault, lastOp>>

(***************************************************************************)
(* Bounds of the model.                                                    *)
(***************************************************************************)
\* entry and snapshot indices are drawn from 1..MaxIndex
MaxIndex == 3
\* the terms of entries and snapshots are drawn from 1..MaxTerm
MaxTerm == 1
\* a merge input holds at most MaxLen entries
MaxLen == 2

Indices == 1..MaxIndex
Terms == 1..MaxTerm

\* the terms a durability report may carry: those of Terms and 0, the term of
\* no entry
ReportTerms == 0..MaxTerm

NoFault == "none"

Nil == <<>>

Entry(i, t) == [Index |-> i, Term |-> t]

\* the window as one value, im *inMemory
im == [snapshot |-> snapshot, entries |-> entries,
       markerIndex |-> markerIndex, savedTo |-> savedTo, fault |-> fault]

(***************************************************************************)
(* uint64 arithmetic.  All values of the model are far below 2^63, so a    *)
(* sum never wraps; a difference a - b wraps exactly when a < b, and the   *)
(* wrapped value 2^64 - (b - a) then exceeds every slice length.           *)
(***************************************************************************)
\* a - b > n in uint64 arithmetic, for n a slice length
U64SubGt(a, b, n) == IF a < b THEN TRUE ELSE a - b > n

(***************************************************************************)
(* Helpers of the package that live outside inmemory.go.                   *)
(***************************************************************************)
\* min of two uint64
min(x, y) == IF x > y THEN y ELSE x

\* a copy of ents in storage of its own
newEntrySlice(ents) == [k \in 1..Len(ents) |-> ents[k]]

\* TRUE iff the reconciled sequence ents ++ toAppend is accepted: every entry
\* is followed by the entry of the next index
checkEntriesToAppend(ents, toAppend) ==
    LET s == ents \o toAppend
    IN \A k \in 1..(Len(s) - 1) : s[k + 1].Index = s[k].Index + 1

(***************************************************************************)
(* inmemory.go                                                             *)
(***************************************************************************)
newInMemory(lastIndex) ==
    [snapshot |-> Nil, entries |-> <<>>,
     markerIndex |-> lastIndex + 1, savedTo |-> lastIndex, fault |-> NoFault]

\* the panic of checkMarkerIndex is raised
checkMarkerIndexPanics(w) ==
    /\ Len(w.entries) > 0
    /\ w.entries[1].Index # w.markerIndex

checkMarkerIndex(w) ==
    IF checkMarkerIndexPanics(w) THEN [w EXCEPT !.fault = "checkMarkerIndex"] ELSE w

\* [fault, ents]: the slice entries[low-markerIndex : high-markerIndex], or
\* the panic of the range checks
getEntries(w, low, high) ==
    LET upperBound == w.markerIndex + Len(w.entries)
    IN IF low > high \/ low < w.markerIndex
         THEN [fault |-> "getEntries: invalid low", ents |-> <<>>]
       ELSE IF high > upperBound
         THEN [fault |-> "getEntries: invalid high", ents |-> <<>>]
       ELSE [fault |-> NoFault,
             ents |-> SubSeq(w.entries, low - w.markerIndex + 1, high - w.markerIndex)]

\* [value, ok]
getSnapshotIndex(w) ==
    IF w.snapshot # Nil
      THEN [value |-> w.snapshot[1].Index, ok |-> TRUE]
      ELSE [value |-> 0, ok |-> FALSE]

getLastIndex(w) ==
    IF Len(w.entries) > 0
      THEN [value |-> w.entries[Len(w.entries)].Index, ok |-> TRUE]
      ELSE getSnapshotIndex(w)

\* the suffix entries[idx-markerIndex:], empty when the unsigned difference
\* idx-markerIndex exceeds len(entries)
entriesToSave(w) ==
    LET idx == w.savedTo + 1
    IN IF U64SubGt(idx, w.markerIndex, Len(w.entries))
         THEN <<>>
         ELSE SubSeq(w.entries, idx - w.markerIndex + 1, Len(w.entries))

\* savedLogTo reads entries[index-markerIndex] beyond the end of the slice: the
\* run-time panic of an index out of range
savedLogToPanics(w, index) ==
    /\ ~(index < w.markerIndex)
    /\ ~(Len(w.entries) = 0)
    /\ ~(index > w.entries[Len(w.entries)].Index)
    /\ index - w.markerIndex >= Len(w.entries)

\* the guards of savedLogTo all pass
savedLogToAccepts(w, index, term) ==
    /\ ~(index < w.markerIndex)
    /\ ~(Len(w.entries) = 0)
    /\ ~savedLogToPanics(w, index)
    /\ ~(\/ index > w.entries[Len(w.entries)].Index
          \/ term # w.entries[index - w.markerIndex + 1].Term)

\* savedLogTo with the watermark set one entry short
savedLogTo_OffByOne(w, index, term) ==
    IF savedLogToAccepts(w, index, term) THEN [w EXCEPT !.savedTo = index - 1] ELSE w

\* savedLogTo without the term check
savedLogTo_IgnoresTerm(w, index, term) ==
    IF /\ ~(index < w.markerIndex)
       /\ ~(Len(w.entries) = 0)
       /\ ~(index > w.entries[Len(w.entries)].Index)
      THEN [w EXCEPT !.savedTo = index] ELSE w

savedLogTo(w, index, term) ==
    IF savedLogToPanics(w, index) THEN [w EXCEPT !.fault = "savedLogTo: index out of range"]
    ELSE IF savedLogToAccepts(w, index, term) THEN [w EXCEPT !.savedTo = index]
    ELSE w

\* the reallocation keeps the elements and their order
resizeEntrySlice(w) ==
    [w EXCEPT !.entries = [k \in 1..Len(w.entries) |-> w.entries[k]]]

\* the guards of appliedLogTo all pass
appliedLogToAccepts(w, index) ==
    /\ ~(index < w.markerIndex)
    /\ ~(Len(w.entries) = 0)
    /\ ~(index > w.entries[Len(w.entries)].Index)

\* appliedLogTo slices entries[index-markerIndex:] from beyond the end of the
\* slice: the run-time panic of slice bounds out of range
appliedLogToPanics(w, index) ==
    /\ appliedLogToAccepts(w, index)
    /\ index - w.markerIndex > Len(w.entries)

\* appliedLogTo with the marker set one below the applied index
appliedLogTo_MarkerOffByOne(w, index) ==
    IF ~appliedLogToAccepts(w, index) THEN w
    ELSE checkMarkerIndex(
           [w EXCEPT !.entries = SubSeq(w.entries, index - w.markerIndex + 1,
                                        Len(w.entries)),
                     !.markerIndex = index - 1])

\* appliedLogTo that also discards the entry at the applied index
appliedLogTo_DropsApplied(w, index) ==
    IF ~appliedLogToAccepts(w, index) THEN w
    ELSE checkMarkerIndex(
           [w EXCEPT !.entries = SubSeq(w.entries, index - w.markerIndex + 2,
                                        Len(w.entries)),
                     !.markerIndex = index + 1])

appliedLogTo(w, index) ==
    IF ~appliedLogToAccepts(w, index) THEN w
    ELSE IF appliedLogToPanics(w, index)
      THEN [w EXCEPT !.fault = "appliedLogTo: slice bounds out of range"]
    ELSE LET newMarkerIndex == index
             cut == [w EXCEPT
                       !.entries = SubSeq(w.entries, newMarkerIndex - w.markerIndex + 1,
                                          Len(w.entries)),
                       !.markerIndex = newMarkerIndex]
         IN checkMarkerIndex(resizeEntrySlice(cut))

\* savedSnapshotTo that clears the pending snapshot whatever its index
savedSnapshotTo_ClearsAny(w, index) ==
    LET r == getSnapshotIndex(w)
    IN IF r.ok THEN [w EXCEPT !.snapshot = Nil] ELSE w

savedSnapshotTo(w, index) ==
    LET r == getSnapshotIndex(w)
    IN IF r.ok /\ r.value = index THEN [w EXCEPT !.snapshot = Nil] ELSE w

\* getTerm that answers from the pending snapshot for every compacted index
getTerm_AnySnapshot(w, index) ==
    IF index < w.markerIndex
      THEN IF getSnapshotIndex(w).ok
             THEN [value |-> w.snapshot[1].Term, ok |-> TRUE, fault |-> NoFault]
             ELSE [value |-> 0, ok |-> FALSE, fault |-> NoFault]
    ELSE LET l == getLastIndex(w)
         IN IF l.ok /\ index <= l.value
              THEN IF index - w.markerIndex < Len(w.entries)
                     THEN [value |-> w.entries[index - w.markerIndex + 1].Term,
                           ok |-> TRUE, fault |-> NoFault]
                     ELSE [value |-> 0, ok |-> FALSE, fault |-> "index out of range"]
              ELSE [value |-> 0, ok |-> FALSE, fault |-> NoFault]

\* [value, ok, fault]: the slice access entries[index-markerIndex] panics when
\* the offset is not below len(entries)
getTerm(w, index) ==
    IF index < w.markerIndex
      THEN LET r == getSnapshotIndex(w)
           IN IF r.ok /\ r.value = index
                THEN [value |-> w.snapshot[1].Term, ok |-> TRUE, fault |-> NoFault]
                ELSE [value |-> 0, ok |-> FALSE, fault |-> NoFault]
    ELSE LET l == getLastIndex(w)
         IN IF l.ok /\ index <= l.value
              THEN IF index - w.markerIndex < Len(w.entries)
                     THEN [value |-> w.entries[index - w.markerIndex + 1].Term,
                           ok |-> TRUE, fault |-> NoFault]
                     ELSE [value |-> 0, ok |-> FALSE, fault |-> "index out of range"]
              ELSE [value |-> 0, ok |-> FALSE, fault |-> NoFault]

\* cu = [StableLogTo, StableLogTerm, StableSnapshotTo]
commitUpdate(w, cu) ==
    LET w1 == IF cu.StableLogTo > 0
                THEN savedLogTo(w, cu.StableLogTo, cu.StableLogTerm) ELSE w
    IN IF w1.fault # NoFault THEN w1
       ELSE IF cu.StableSnapshotTo > 0 THEN savedSnapshotTo(w1, cu.StableSnapshotTo)
       ELSE w1

\* which of the three branches of merge is taken
mergeCase(w, ents) ==
    LET firstNewIndex == ents[1].Index
    IN IF firstNewIndex = w.markerIndex + Len(w.entries) THEN "append"
       ELSE IF firstNewIndex <= w.markerIndex THEN "replace"
       ELSE "overlap"

\* mergeAppend that resets the watermark as the second branch does
mergeAppend_ResetsSavedTo(w, ents) ==
    IF ~checkEntriesToAppend(w.entries, ents)
      THEN [w EXCEPT !.fault = "checkEntriesToAppend"]
      ELSE [w EXCEPT !.entries = w.entries \o ents, !.savedTo = ents[1].Index - 1]

\* merge, first branch: the new entries extend the buffer
mergeAppend(w, ents) ==
    IF ~checkEntriesToAppend(w.entries, ents)
      THEN [w EXCEPT !.fault = "checkEntriesToAppend"]
      ELSE [w EXCEPT !.entries = w.entries \o ents]

\* mergeReplace that forgets to move the marker
mergeReplace_KeepsMarker(w, ents) ==
    [w EXCEPT !.entries = newEntrySlice(ents), !.savedTo = ents[1].Index - 1]

\* mergeReplace that appends to the old buffer instead of discarding it
mergeReplace_Appends(w, ents) ==
    [w EXCEPT !.markerIndex = IF Len(w.entries) > 0 THEN w.markerIndex ELSE ents[1].Index,
              !.entries = w.entries \o ents,
              !.savedTo = ents[1].Index - 1]

\* mergeReplace that forgets to lower the watermark
mergeReplace_KeepsSavedTo(w, ents) ==
    [w EXCEPT !.markerIndex = ents[1].Index, !.entries = newEntrySlice(ents)]

\* mergeReplace that lowers the watermark to firstNewIndex instead of firstNewIndex-1
mergeReplace_SavedToFirst(w, ents) ==
    [w EXCEPT !.markerIndex = ents[1].Index,
              !.entries = newEntrySlice(ents),
              !.savedTo = ents[1].Index]

\* merge, second branch: the new entries replace the buffer
mergeReplace(w, ents) ==
    LET firstNewIndex == ents[1].Index
    IN [w EXCEPT !.markerIndex = firstNewIndex,
                 !.entries = newEntrySlice(ents),
                 !.savedTo = firstNewIndex - 1]

\* mergeOverlap that forgets to lower the watermark
mergeOverlap_KeepsSavedTo(w, ents) ==
    LET firstNewIndex == ents[1].Index
        existing == getEntries(w, w.markerIndex, firstNewIndex)
    IN IF existing.fault # NoFault
         THEN [w EXCEPT !.fault = existing.fault]
       ELSE IF ~checkEntriesToAppend(existing.ents, ents)
         THEN [w EXCEPT !.fault = "checkEntriesToAppend"]
       ELSE [w EXCEPT !.entries = existing.ents \o ents]

\* mergeOverlap that asks getEntries for no more than the buffer holds
mergeOverlap_ClampsHigh(w, ents) ==
    LET firstNewIndex == ents[1].Index
        existing == getEntries(w, w.markerIndex,
                               min(firstNewIndex, w.markerIndex + Len(w.entries)))
    IN IF existing.fault # NoFault
         THEN [w EXCEPT !.fault = existing.fault]
       ELSE IF ~checkEntriesToAppend(existing.ents, ents)
         THEN [w EXCEPT !.fault = "checkEntriesToAppend"]
       ELSE [w EXCEPT !.entries = existing.ents \o ents,
                      !.savedTo = min(w.savedTo, firstNewIndex - 1)]

\* merge, third branch: the new entries replace a suffix of the buffer
mergeOverlap(w, ents) ==
    LET firstNewIndex == ents[1].Index
        existing == getEntries(w, w.markerIndex, firstNewIndex)
    IN IF existing.fault # NoFault
         THEN [w EXCEPT !.fault = existing.fault]
       ELSE IF ~checkEntriesToAppend(existing.ents, ents)
         THEN [w EXCEPT !.fault = "checkEntriesToAppend"]
       ELSE [w EXCEPT !.entries = existing.ents \o ents,
                      !.savedTo = min(w.savedTo, firstNewIndex - 1)]

\* a panic inside a branch ends the call before the final checkMarkerIndex
merge(w, ents) ==
    LET w0 == resizeEntrySlice(w)
        c == mergeCase(w0, ents)
        w1 == IF c = "append" THEN mergeAppend(w0, ents)
              ELSE IF c = "replace" THEN mergeReplace(w0, ents)
              ELSE mergeOverlap(w0, ents)
    IN IF w1.fault # NoFault THEN w1 ELSE checkMarkerIndex(w1)

\* restore that leaves the buffered entries in place
restore_KeepsEntries(w, ss) ==
    [w EXCEPT !.snapshot = <<ss>>,
              !.markerIndex = ss.Index + 1,
              !.savedTo = ss.Index]

\* restore that sets the marker to the snapshot's index
restore_MarkerAtIndex(w, ss) ==
    [w EXCEPT !.snapshot = <<ss>>,
              !.markerIndex = ss.Index,
              !.entries = <<>>,
              !.savedTo = ss.Index]

restore(w, ss) ==
    [w EXCEPT !.snapshot = <<ss>>,
              !.markerIndex = ss.Index + 1,
              !.entries = <<>>,
              !.savedTo = ss.Index]

(***************************************************************************)
(* Inputs.                                                                 *)
(***************************************************************************)
\* the run of entries of indices first..last with the terms of f
Run(first, last, f) == [k \in 1..(last - first + 1) |-> Entry(first + k - 1, f[first + k - 1])]

\* non-empty merge inputs, indices >= 1 and contiguous ascending by 1
ContiguousInputs ==
    UNION { { Run(p[1], p[2], f) : f \in [p[1]..p[2] -> Terms] } :
            p \in { q \in Indices \X Indices : q[1] <= q[2] /\ q[2] - q[1] < MaxLen } }

\* the indices of s ascend by exactly 1
IsContiguous(s) == \A k \in 1..(Len(s) - 1) : s[k + 1].Index = s[k].Index + 1

\* merge inputs of 2..MaxLen entries of one term whose indices, each >= 1, do
\* not ascend by 1: a hole, a repetition or a step back
GappedInputs ==
    { s \in UNION { { [k \in 1..n |-> Entry(ix[k], t)] :
                        ix \in [1..n -> Indices], t \in Terms } : n \in 2..MaxLen } :
        ~IsContiguous(s) }

Snapshots == [Index : 1..(MaxIndex - 1), Term : Terms]

\* the zero value of a field of pb.UpdateCommit means "no update of that kind"
UpdateCommits ==
    { cu \in [StableLogTo : 0..MaxIndex, StableLogTerm : ReportTerms,
              StableSnapshotTo : 0..MaxIndex] :
        (cu.StableLogTo = 0) => (cu.StableLogTerm = 0) }

(***************************************************************************)
(* The state machine.  lastOp records the last operation called, the       *)
(* branch it took and, when it took effect, the index it was called with   *)
(* (0 when the call was ignored); for a merge it records firstNewIndex     *)
(* and, when the merge returned, its input.  It is an observer of the run, *)
(* not a field of the program.                                             *)
(***************************************************************************)
Op(name, index, case) == [op |-> name, index |-> index, case |-> case, ents |-> <<>>]

\* cu reports the last entry entriesToSave returns, and nothing else
IsRoundTrip(w, cu) ==
    LET e == entriesToSave(w)
    IN /\ Len(e) > 0
       /\ cu.StableLogTo = e[Len(e)].Index
       /\ cu.StableLogTerm = e[Len(e)].Term
       /\ cu.StableSnapshotTo = 0

\* the window becomes w
Becomes(w) ==
    /\ snapshot' = w.snapshot
    /\ entries' = w.entries
    /\ markerIndex' = w.markerIndex
    /\ savedTo' = w.savedTo
    /\ fault' = w.fault

Init ==
    \E lastIndex \in 0..(MaxIndex - 1) :
       LET w == newInMemory(lastIndex)
       IN /\ snapshot = w.snapshot
          /\ entries = w.entries
          /\ markerIndex = w.markerIndex
          /\ savedTo = w.savedTo
          /\ fault = w.fault
          /\ lastOp = Op("newInMemory", lastIndex, "")

Merge ==
    /\ fault = NoFault
    /\ \E ents \in ContiguousInputs :
          /\ LET r == merge(im, ents) IN Becomes(r)
          /\ lastOp' = [Op("merge", ents[1].Index, mergeCase(im, ents)) EXCEPT
                          !.ents = IF fault' = NoFault THEN ents ELSE <<>>]

\* lastOp tells what became of the StableLogTo part of cu
CommitUpdate ==
    /\ fault = NoFault
    /\ \E cu \in UpdateCommits :
          /\ LET r == commitUpdate(im, cu) IN Becomes(r)
          /\ lastOp' = IF IsRoundTrip(im, cu)
                         THEN Op("commitUpdate", cu.StableLogTo, "roundtrip")
                       ELSE IF /\ cu.StableLogTo > 0
                               /\ savedLogToAccepts(im, cu.StableLogTo, cu.StableLogTerm)
                         THEN Op("commitUpdate", cu.StableLogTo, "accepted")
                       ELSE Op("commitUpdate", 0, "ignored")

SavedLogTo ==
    /\ fault = NoFault
    /\ \E index \in Indices, term \in ReportTerms :
          /\ LET r == savedLogTo(im, index, term) IN Becomes(r)
          /\ lastOp' = IF savedLogToAccepts(im, index, term)
                         THEN Op("savedLogTo", index, "accepted")
                         ELSE Op("savedLogTo", 0, "ignored")

AppliedLogTo ==
    /\ fault = NoFault
    /\ \E index \in Indices :
          /\ LET r == appliedLogTo(im, index) IN Becomes(r)
          /\ lastOp' = IF appliedLogToAccepts(im, index)
                         THEN Op("appliedLogTo", index, "accepted")
                         ELSE Op("appliedLogTo", 0, "ignored")

SavedSnapshotTo ==
    /\ fault = NoFault
    /\ \E index \in Indices :
          /\ LET r == savedSnapshotTo(im, index) IN Becomes(r)
          /\ lastOp' = IF snapshot' # snapshot
                         THEN Op("savedSnapshotTo", index, "cleared")
                         ELSE Op("savedSnapshotTo", 0, "ignored")

Restore ==
    /\ fault = NoFault
    /\ \E ss \in Snapshots :
          /\ LET r == restore(im, ss) IN Becomes(r)
          /\ lastOp' = Op("restore", ss.Index, "")

Next ==
    \/ Merge
    \/ CommitUpdate
    \/ SavedLogTo
    \/ AppliedLogTo
    \/ SavedSnapshotTo
    \/ Restore

Spec == Init /\ [][Next]_vars

(***************************************************************************)
(* The window under a caller that also hands merge inputs whose indices    *)
(* are not contiguous.                                                     *)
(***************************************************************************)
MergeGapped ==
    /\ fault = NoFault
    /\ \E ents \in GappedInputs :
          /\ LET r == merge(im, ents) IN Becomes(r)
          /\ lastOp' = [Op("merge", ents[1].Index, mergeCase(im, ents)) EXCEPT
                          !.ents = IF fault' = NoFault THEN ents ELSE <<>>]

NextGapped ==
    \/ Next
    \/ MergeGapped

GapSpec == Init /\ [][NextGapped]_vars

(***************************************************************************)
(* The window with its durable log store: the store reads entriesToSave()  *)
(* and, when it is not empty, reports the last returned entry by           *)
(* commitUpdate.  Persist is that round; it is a case of CommitUpdate, and *)
(* the store keeps making it while there is something to report.           *)
(***************************************************************************)
Persist ==
    /\ fault = NoFault
    /\ \E cu \in UpdateCommits :
          /\ IsRoundTrip(im, cu)
          /\ LET r == commitUpdate(im, cu) IN Becomes(r)
          /\ lastOp' = Op("commitUpdate", cu.StableLogTo, "roundtrip")

LiveSpec == Init /\ [][Next]_vars /\ WF_vars(Persist)

\* a step of the quiet phase: a round of the store, or a compaction
QuietStep ==
    \/ lastOp'.op = "commitUpdate" /\ lastOp'.case = "roundtrip"
    \/ lastOp'.op = "appliedLogTo"

(***************************************************************************)
(* Properties.                                                             *)
(***************************************************************************)
\* the entries of a sequence, as a set
Range(s) == { s[k] : k \in 1..Len(s) }

\* the entries of s whose index is below i, in order
Below(s, i) == SelectSeq(s, LAMBDA e : e.Index < i)

\* the entries of s whose index is above i, in order
Above(s, i) == SelectSeq(s, LAMBDA e : e.Index > i)

\* the entries of s whose index is at least i, in order
AtOrAbove(s, i) == SelectSeq(s, LAMBDA e : e.Index >= i)

\* C1: whenever the buffer is non-empty its first entry has index markerIndex,
\* and the panic of checkMarkerIndex is never raised.
C1_FirstIndexIsMarker ==
    /\ fault # "checkMarkerIndex"
    /\ Len(entries) > 0 => entries[1].Index = markerIndex

\* C1: a compaction has moved the marker into a buffer that stays non-empty
C1_Witness ==
    /\ fault = NoFault
    /\ lastOp.op = "appliedLogTo" /\ lastOp.case = "accepted"
    /\ Len(entries) > 1
    /\ markerIndex > 1

\* C2: the indices of the buffered entries ascend by exactly 1, so the buffer
\* covers exactly the indices markerIndex .. markerIndex+len(entries)-1.
C2_Contiguous ==
    /\ \A k \in 1..(Len(entries) - 1) : entries[k + 1].Index = entries[k].Index + 1
    /\ \A k \in 1..Len(entries) : entries[k].Index = markerIndex + k - 1

\* C2: a partial-overlap merge has rebuilt a buffer of at least three entries
C2_Witness ==
    /\ fault = NoFault
    /\ lastOp.op = "merge" /\ lastOp.case = "overlap"
    /\ Len(entries) >= 3

\* C3 (the claim as stated): savedTo >= markerIndex - 1 in every reachable state.
\* appliedLogTo(k) with k > savedTo + 1 moves the marker past the watermark.
C3_SavedToReachesMarker == savedTo >= markerIndex - 1

\* C4: with a non-empty buffer, savedTo never exceeds the index of the last
\* buffered entry.
C4_SavedToWithinBuffer ==
    Len(entries) > 0 => savedTo <= markerIndex + Len(entries) - 1

\* C4: a full-replace merge has left a single entry, the watermark just below it
C4_Witness ==
    /\ fault = NoFault
    /\ lastOp.op = "merge" /\ lastOp.case = "replace"
    /\ Len(entries) = 1
    /\ snapshot = Nil
    /\ savedTo = markerIndex - 1

\* C5: whenever entriesToSave() is non-empty with last entry (i, t), the call
\* commitUpdate{StableLogTo: i, StableLogTerm: t} sets savedTo to i and leaves
\* entriesToSave() empty.
C5_RoundTrip ==
    LET e == entriesToSave(im)
    IN (fault = NoFault /\ Len(e) > 0) =>
         LET i == e[Len(e)].Index
             t == e[Len(e)].Term
             r == commitUpdate(im, [StableLogTo |-> i, StableLogTerm |-> t,
                                    StableSnapshotTo |-> 0])
         IN /\ r.savedTo = i
            /\ entriesToSave(r) = <<>>

\* C5: the round trip has been made on a buffer of several entries
C5_Witness ==
    /\ lastOp.op = "commitUpdate" /\ lastOp.case = "roundtrip"
    /\ Len(entries) >= 2
    /\ savedTo = lastOp.index
    /\ savedTo = markerIndex + Len(entries) - 1

\* the step rewrites index i: a restore, or a merge whose first index is <= i
Rewrites(i) ==
    \/ lastOp'.op = "restore"
    \/ lastOp'.op = "merge" /\ lastOp'.index <= i

\* C6 (the claim as stated): a buffered entry that savedTo has reached is not
\* returned by entriesToSave() after any step that does not rewrite its index.
\* A stale savedLogTo(j, term) with markerIndex <= j < savedTo lowers savedTo.
C6_NoEntryReportedTwice ==
    [][\A e \in Range(entries) :
          (e.Index <= savedTo /\ ~Rewrites(e.Index)) => e \notin Range(entriesToSave(im'))]_vars

\* C7 (the claim as stated): entriesToSave() returns exactly the buffered entries
\* whose index is > savedTo, in order.  With savedTo + 1 < markerIndex the
\* unsigned difference wraps and the call returns nothing.
C7_EntriesToSaveIsUnsavedSuffix ==
    entriesToSave(im) = Above(entries, savedTo)

\* C8 (the claim as stated): no step leaves markerIndex smaller than it was.
C8_MarkerNeverRegresses == [][markerIndex' >= markerIndex]_vars

\* C8 (amended): markerIndex is lowered only by a full-replace merge, which sets
\* it to firstNewIndex, and by restore, which sets it to ss.Index + 1; savedLogTo,
\* commitUpdate, appliedLogTo, savedSnapshotTo and the other merges never lower it.
C8_MarkerRegressesOnlyByReplaceOrRestore ==
    [][markerIndex' < markerIndex =>
         \/ /\ lastOp'.op = "merge" /\ lastOp'.case = "replace"
            /\ markerIndex' = lastOp'.index
         \/ /\ lastOp'.op = "restore"
            /\ markerIndex' = lastOp'.index + 1]_vars

\* C8: an effective appliedLogTo(k) has left markerIndex = k
C8_Witness ==
    /\ fault = NoFault
    /\ lastOp.op = "appliedLogTo" /\ lastOp.case = "accepted"
    /\ markerIndex = lastOp.index
    /\ markerIndex = MaxIndex

\* C9: a merge with markerIndex < firstNewIndex < markerIndex+len(entries) leaves
\* the old entries of index < firstNewIndex followed by the new entries, keeps
\* markerIndex and the snapshot, and sets savedTo to min(savedTo, firstNewIndex-1).
C9_PartialOverlap ==
    [][(/\ lastOp'.op = "merge"
        /\ markerIndex < lastOp'.index
        /\ lastOp'.index < markerIndex + Len(entries)) =>
         /\ fault' = NoFault
         /\ entries' = Below(entries, lastOp'.index) \o lastOp'.ents
         /\ markerIndex' = markerIndex
         /\ snapshot' = snapshot
         /\ savedTo' = IF savedTo <= lastOp'.index - 1 THEN savedTo
                       ELSE lastOp'.index - 1]_vars

\* C9: a partial-overlap merge has lowered the watermark to firstNewIndex - 1
C9_Witness ==
    /\ fault = NoFault
    /\ lastOp.op = "merge" /\ lastOp.case = "overlap"
    /\ savedTo = lastOp.index - 1
    /\ savedTo >= markerIndex

\* C10: a merge with firstNewIndex <= markerIndex leaves exactly the new entries,
\* markerIndex = firstNewIndex, savedTo = firstNewIndex - 1 and the snapshot as
\* it was.
C10_FullReplace ==
    [][(lastOp'.op = "merge" /\ lastOp'.index <= markerIndex) =>
         /\ fault' = NoFault
         /\ Len(lastOp'.ents) > 0
         /\ entries' = lastOp'.ents
         /\ markerIndex' = lastOp'.index
         /\ savedTo' = lastOp'.index - 1
         /\ snapshot' = snapshot]_vars

\* C10: a full-replace merge has moved the marker below a pending snapshot
C10_Witness ==
    /\ fault = NoFault
    /\ lastOp.op = "merge" /\ lastOp.case = "replace"
    /\ markerIndex = lastOp.index
    /\ savedTo = markerIndex - 1
    /\ snapshot # Nil
    /\ snapshot[1].Index >= markerIndex

\* C11: a merge with firstNewIndex = markerIndex+len(entries) leaves the old
\* buffer followed by the new entries, and keeps markerIndex, savedTo and the
\* pending snapshot.
C11_PureAppend ==
    [][(lastOp'.op = "merge" /\ lastOp'.index = markerIndex + Len(entries)) =>
         /\ fault' = NoFault
         /\ Len(lastOp'.ents) > 0
         /\ entries' = entries \o lastOp'.ents
         /\ markerIndex' = markerIndex
         /\ savedTo' = savedTo
         /\ snapshot' = snapshot]_vars

\* C11: a pure append has extended a non-empty buffer whose tail was not yet
\* saved, with a snapshot pending
C11_Witness ==
    /\ fault = NoFault
    /\ lastOp.op = "merge" /\ lastOp.case = "append"
    /\ Len(lastOp.ents) > 0
    /\ Len(entries) > Len(lastOp.ents)
    /\ savedTo < lastOp.index - 1
    /\ snapshot # Nil

\* C12: on a non-empty buffer and markerIndex <= k <= last buffered index,
\* appliedLogTo(k) sets markerIndex = k and leaves exactly the old entries of
\* index >= k, in order and unmodified, the entry at k first, with savedTo and
\* the snapshot unchanged and no fault; for every other k, and on an empty
\* buffer, it changes nothing.
C12_Compaction ==
    fault = NoFault =>
      \A k \in 0..(MaxIndex + 1) :
         LET r == appliedLogTo(im, k)
         IN IF /\ Len(entries) > 0
               /\ markerIndex <= k
               /\ k <= entries[Len(entries)].Index
              THEN /\ r.fault = NoFault
                   /\ r.markerIndex = k
                   /\ r.entries = AtOrAbove(entries, k)
                   /\ r.entries[1].Index = k
                   /\ r.savedTo = savedTo
                   /\ r.snapshot = snapshot
              ELSE r = im

\* C12: a compaction has cut the buffer at an index the watermark had passed,
\* with a snapshot pending, and has kept the entry at that index
C12_Witness ==
    /\ fault = NoFault
    /\ lastOp.op = "appliedLogTo" /\ lastOp.case = "accepted"
    /\ markerIndex = lastOp.index
    /\ entries[1].Index = lastOp.index
    /\ Len(entries) >= 2
    /\ savedTo > markerIndex
    /\ snapshot # Nil

\* C13: from every reachable state and for every snapshot ss, restore(ss)
\* yields markerIndex = ss.Index + 1, an empty buffer, savedTo = ss.Index and
\* the pending snapshot (ss.Index, ss.Term), without fault.
C13_Restore ==
    fault = NoFault =>
      \A ss \in Snapshots :
         LET r == restore(im, ss)
         IN /\ r.markerIndex = ss.Index + 1
            /\ r.entries = <<>>
            /\ r.savedTo = ss.Index
            /\ r.snapshot = <<[Index |-> ss.Index, Term |-> ss.Term]>>
            /\ r.fault = NoFault

\* C13: a restore has installed a snapshot of the highest term below the
\* index the window started from
C13_Witness ==
    /\ fault = NoFault
    /\ lastOp.op = "restore"
    /\ snapshot = <<[Index |-> lastOp.index, Term |-> MaxTerm]>>
    /\ entries = <<>>
    /\ markerIndex = lastOp.index + 1
    /\ savedTo = lastOp.index
    /\ lastOp.index = 1

\* C14: savedSnapshotTo(i) clears the pending snapshot exactly when one is
\* pending and its index is i; otherwise the snapshot stays as it was; in every
\* case markerIndex, savedTo and the buffer are unchanged and no fault is raised.
C14_SavedSnapshotTo ==
    fault = NoFault =>
      \A i \in 0..(MaxIndex + 1) :
         LET r == savedSnapshotTo(im, i)
         IN /\ r.snapshot = IF snapshot # Nil /\ snapshot[1].Index = i
                              THEN Nil ELSE snapshot
            /\ r.markerIndex = markerIndex
            /\ r.savedTo = savedTo
            /\ r.entries = entries
            /\ r.fault = NoFault

\* C14: the acknowledgement of the pending snapshot has cleared it and left
\* a non-empty buffer in place
C14_Witness ==
    /\ fault = NoFault
    /\ lastOp.op = "savedSnapshotTo" /\ lastOp.case = "cleared"
    /\ lastOp.index > 0
    /\ snapshot = Nil
    /\ Len(entries) > 0

\* C15: getTerm(i) returns the snapshot's term for i < markerIndex when a
\* snapshot of index exactly i is pending and not-found for every other
\* i < markerIndex; the term of the buffered entry of index i for
\* markerIndex <= i <= last buffered index; not-found for every other i; and
\* it never faults.
C15_GetTerm ==
    fault = NoFault =>
      \A i \in 0..(MaxIndex + 1) :
         LET r == getTerm(im, i)
         IN /\ r.fault = NoFault
            /\ IF i < markerIndex
                 THEN IF snapshot # Nil /\ snapshot[1].Index = i
                        THEN r.ok /\ r.value = snapshot[1].Term
                        ELSE ~r.ok
               ELSE IF Len(entries) > 0 /\ i <= entries[Len(entries)].Index
                 THEN /\ r.ok
                      /\ \E e \in Range(entries) : e.Index = i /\ e.Term = r.value
                      /\ \A e \in Range(entries) : e.Index = i => e.Term = r.value
               ELSE ~r.ok

\* C15: the three answers occur in one state: the pending snapshot's term below
\* the marker, not-found at a compacted index, an entry's term in the buffer
C15_Witness ==
    /\ fault = NoFault
    /\ snapshot # Nil
    /\ snapshot[1].Index < markerIndex - 1
    /\ Len(entries) > 0
    /\ getTerm(im, snapshot[1].Index).ok
    /\ ~getTerm(im, markerIndex - 1).ok
    /\ getTerm(im, markerIndex).ok
    /\ getTerm(im, markerIndex).value = entries[1].Term
    /\ ~getTerm(im, markerIndex + Len(entries)).ok

\* C16: savedLogTo(i, t) with i < markerIndex, an empty buffer, i > last
\* buffered index, or t different from the term of the buffered entry of index
\* i leaves the whole window unchanged and raises no fault; otherwise it
\* changes savedTo only, to i.
C16_StaleSavedLogTo ==
    fault = NoFault =>
      \A i \in 0..(MaxIndex + 1), t \in ReportTerms :
         LET r == savedLogTo(im, i, t)
             stale == \/ i < markerIndex
                      \/ Len(entries) = 0
                      \/ i > entries[Len(entries)].Index
                      \/ \A e \in Range(entries) : e.Index = i => e.Term # t
         IN IF stale THEN r = im ELSE r = [im EXCEPT !.savedTo = i]

\* C16: a report has been ignored while the buffer held an entry the
\* watermark had not reached
C16_Witness ==
    /\ fault = NoFault
    /\ lastOp.op = "savedLogTo" /\ lastOp.case = "ignored"
    /\ Len(entries) > 0
    /\ savedTo >= markerIndex
    /\ savedTo < entries[Len(entries)].Index

\* C17 (the claim as stated): a merge whose input indices are not contiguous
\* ascending by 1 ends in a fault, whichever branch it takes; it never returns
\* with the input installed.  The second branch of merge copies the input
\* without any check.
C17_GappedMergeFaults ==
    (lastOp.op = "merge" /\ ~IsContiguous(lastOp.ents)) => fault # NoFault

\* C18: a merge with firstNewIndex > markerIndex+len(entries) ends in the fault
\* of the upper range check of getEntries, with markerIndex, savedTo, the
\* snapshot and the buffer contents as they were before the call.
C18_HoleFaultsBeforeMutation ==
    [][(lastOp'.op = "merge" /\ lastOp'.index > markerIndex + Len(entries)) =>
         /\ fault' = "getEntries: invalid high"
         /\ markerIndex' = markerIndex
         /\ savedTo' = savedTo
         /\ snapshot' = snapshot
         /\ entries' = entries]_vars

\* C18: a merge has left a hole after a non-empty buffer and has faulted in
\* getEntries, a snapshot pending
C18_Witness ==
    /\ fault = "getEntries: invalid high"
    /\ lastOp.op = "merge" /\ lastOp.case = "overlap"
    /\ lastOp.index > markerIndex + Len(entries)
    /\ Len(entries) > 0
    /\ snapshot # Nil

\* C19 (the claim as stated): if from some point on the only steps are rounds
\* of the durable log store and compactions, then from some point on savedTo is
\* the index of the last buffered entry.  After appliedLogTo(k) with
\* k > savedTo + 1, entriesToSave() is empty for ever and savedTo stays behind.
C19_DurabilityProgress ==
    <>[][QuietStep]_vars =>
      <>[](fault = NoFault /\ Len(entries) > 0 => savedTo = entries[Len(entries)].Index)

\* C20: whenever getLastIndex() reports found, its value is
\* markerIndex+len(entries)-1: the last entry's index on a non-empty buffer,
\* and on an empty buffer with a pending snapshot that snapshot's index, which
\* is then markerIndex-1.  So getTerm(i) with i >= markerIndex never indexes
\* the buffer out of range.
C20_LastIndexAtBufferEnd ==
    fault = NoFault =>
      LET l == getLastIndex(im)
      IN /\ l.ok => l.value = markerIndex + Len(entries) - 1
         /\ Len(entries) > 0 => l.ok /\ l.value = entries[Len(entries)].Index
         /\ (Len(entries) = 0 /\ snapshot # Nil) =>
               l.ok /\ l.value = snapshot[1].Index /\ snapshot[1].Index = markerIndex - 1
         /\ \A i \in markerIndex..(MaxIndex + 1) : getTerm(im, i).fault = NoFault

\* C20: a restore has been followed by a full replace below the snapshot and a
\* compaction: the pending snapshot's index lies at or above the marker of a
\* non-empty buffer
C20_Witness ==
    /\ fault = NoFault
    /\ lastOp.op = "appliedLogTo" /\ lastOp.case = "accepted"
    /\ snapshot # Nil
    /\ Len(entries) > 0
    /\ snapshot[1].Index >= markerIndex
    /\ getLastIndex(im).ok
    /\ getTerm(im, snapshot[1].Index).ok

=============================================================================
